---- MODULE Spec2Model ----
(***************************************************************************)
(* emscripten-helper: the JSObject handle wrapper and its conversions      *)
(* (src/src/lib.rs), the HELPERJS object table and string helpers the      *)
(* wrapper calls (helper.js, described by the module documentation of      *)
(* lib.rs and by the specification), and the build-time host-script        *)
(* preprocessor (src/build.rs).                                            *)
(***************************************************************************)
EXTENDS Integers, Sequences, FiniteSets, TLC

VARIABLES
    table,      \* HELPERJS object table: sequence of host values, handle h at index h+1
    objs,       \* every JSObject constructed so far: [value, jshandle, rc, live]
    heap,       \* native heap: address -> 16-bit units of a live allocation
    wildFree,   \* addresses handed to free() that were no live allocation
    relCount,   \* per counter group: number of releaseObject calls its drops issued
    hostError,  \* a host snippet threw: the program is dead
    op,         \* the operation that ran last
    inp,        \* its input
    ret,        \* its result
    calls,      \* the boundary calls it made, in order
    haystack,   \* JSJunkSearcher.haystack
    pos,        \* JSJunkSearcher.pos
    last_end,   \* str::replace: end of the last match
    result,     \* str::replace: output built so far
    step,       \* the SearchStep the last next() returned
    pc          \* preprocessor position: "idle", "search", "done"

rtvars == <<table, objs, heap, wildFree, relCount, hostError, op, inp, ret, calls>>
prevars == <<haystack, pos, last_end, result, step, pc>>
vars == <<table, objs, heap, wildFree, relCount, hostError, op, inp, ret, calls,
          haystack, pos, last_end, result, step, pc>>

-----------------------------------------------------------------------------
(* Bounds of the model *)

MaxObjs == 3        \* wrappers constructed in one run
MaxSlots == 3       \* object table slots
MaxLen == 4         \* length of a preprocessor input drawn from Alphabet

-----------------------------------------------------------------------------
(* Numbers on the wire: an f64 is NaN or an integral value *)

D(n) == [nan |-> FALSE, n |-> n]
NaN == [nan |-> TRUE, n |-> 0]

F64Mant == 53
F32Mant == 24

RECURSIVE Pow2(_)
Pow2(k) == IF k = 0 THEN 1 ELSE 2 * Pow2(k - 1)

RECURSIVE BitLen(_)
BitLen(m) == IF m = 0 THEN 0 ELSE 1 + BitLen(m \div 2)

Abs(x) == IF x < 0 THEN -x ELSE x

\* round an integer to the nearest value with a p-bit significand, ties to even
RoundMant(x, p) ==
    LET m == Abs(x)
        sh == BitLen(m) - p
    IN  IF sh <= 0 THEN x
        ELSE LET q == m \div Pow2(sh)
                 r == m % Pow2(sh)
                 half == Pow2(sh - 1)
                 up == r > half \/ (r = half /\ q % 2 = 1)
                 mag == (IF up THEN q + 1 ELSE q) * Pow2(sh)
             IN  IF x < 0 THEN -mag ELSE mag

IntTypes == {"isize", "usize", "i32", "u32", "i16", "u16", "i8", "u8"}
FloatTypes == {"f32", "f64"}
NumTypes == IntTypes \cup FloatTypes

\* least value of an integer type; isize and usize are 32 bits wide on the
\* emscripten targets the crate builds for
TypeMin(ty) ==
    CASE ty \in {"usize", "u32", "u16", "u8"} -> 0
      [] ty = "i8" -> -128
      [] ty = "i16" -> -32768
      [] ty \in {"i32", "isize"} -> -2147483647 - 1

\* u32 and usize reach 2^32 - 1, above every integer the model can hold
HasMax(ty) == ty \notin {"u32", "usize"}

TypeMax(ty) ==
    CASE ty = "i8" -> 127
      [] ty = "u8" -> 255
      [] ty = "i16" -> 32767
      [] ty = "u16" -> 65535
      [] ty \in {"i32", "isize"} -> 2147483647

\* `v as f64`
as_f64(ty, v) ==
    IF ty \in FloatTypes THEN v
    ELSE D(RoundMant(v, F64Mant))

\* the cast done as if every integer type were unsigned
as_type_unsigned(ty, x) ==
    CASE ty = "f64" -> x
      [] ty = "f32" -> IF x.nan THEN x ELSE D(RoundMant(x.n, F32Mant))
      [] OTHER -> IF x.nan \/ x.n < 0 THEN 0
                  ELSE IF HasMax(ty) /\ x.n > TypeMax(ty) THEN TypeMax(ty)
                  ELSE x.n

\* `x as $type` for an f64 x: saturating for integers, rounding for f32
as_type(ty, x) ==
    CASE ty = "f64" -> x
      [] ty = "f32" -> IF x.nan THEN x ELSE D(RoundMant(x.n, F32Mant))
      [] OTHER -> IF x.nan THEN 0
                  ELSE IF x.n < TypeMin(ty) THEN TypeMin(ty)
                  ELSE IF HasMax(ty) /\ x.n > TypeMax(ty) THEN TypeMax(ty)
                  ELSE x.n

\* values of each type that the conversions are tried on
Samples(ty) ==
    CASE ty = "i8" -> {-128, -1, 0, 127}
      [] ty = "u8" -> {0, 1, 255}
      [] ty = "i16" -> {-32768, 0, 32767}
      [] ty = "u16" -> {0, 65535}
      [] ty \in {"i32", "isize"} -> {-2147483647, 0, 16777217, 2147483647}
      [] ty \in {"u32", "usize"} -> {0, 16777217, 2147483647}
      [] ty = "f32" -> {D(0), D(-1), D(16777216), D(16777218), NaN}
      [] ty = "f64" -> {D(0), D(-1), D(16777217), D(2147483647), NaN}

-----------------------------------------------------------------------------
(* Text: a native string is a sequence of Unicode scalar values, a host    *)
(* string a sequence of UTF-16 code units                                  *)

Chars == {65, 128512}
Strings == {<<>>} \cup {<<c>> : c \in Chars} \cup {<<c, d>> : c \in Chars, d \in {65}}

IsHigh(u) == u >= 55296 /\ u <= 56319
IsLow(u) == u >= 56320 /\ u <= 57343
Replacement == 65533

\* str::encode_utf16
RECURSIVE encode_utf16(_)
encode_utf16(s) ==
    IF s = <<>> THEN <<>>
    ELSE LET c == Head(s)
         IN  IF c < 65536 THEN <<c>> \o encode_utf16(Tail(s))
             ELSE <<55296 + ((c - 65536) \div 1024), 56320 + ((c - 65536) % 1024)>>
                  \o encode_utf16(Tail(s))

\* String::from_utf16_lossy
RECURSIVE from_utf16_lossy(_)
from_utf16_lossy(u) ==
    IF u = <<>> THEN <<>>
    ELSE IF IsHigh(u[1]) /\ Len(u) >= 2 /\ IsLow(u[2])
         THEN <<65536 + (u[1] - 55296) * 1024 + (u[2] - 56320)>>
              \o from_utf16_lossy(SubSeq(u, 3, Len(u)))
    ELSE IF IsHigh(u[1]) \/ IsLow(u[1])
         THEN <<Replacement>> \o from_utf16_lossy(Tail(u))
    ELSE <<u[1]>> \o from_utf16_lossy(Tail(u))

-----------------------------------------------------------------------------
(* Host values and the HELPERJS object table *)

Free == [t |-> "free", n |-> 0, s |-> <<>>, e |-> <<>>]
Num(x) == [t |-> "num", n |-> x, s |-> <<>>, e |-> <<>>]
Str(u) == [t |-> "str", n |-> 0, s |-> u, e |-> <<>>]
Arr(el) == [t |-> "arr", n |-> 0, s |-> <<>>, e |-> el]

Call(o, h) == [op |-> o, h |-> h]

FreeHandles(tbl) == {h \in 0 .. Len(tbl) - 1 : tbl[h + 1] = Free}

\* slots a store can still use
Room(tbl) == MaxSlots - Len(tbl) + Cardinality(FreeHandles(tbl))

\* HELPERJS.storeObject: every (table, handle) the call may produce
storeObject(tbl, v) ==
    IF FreeHandles(tbl) # {}
    THEN {[table |-> [tbl EXCEPT ![h + 1] = v], h |-> h] : h \in FreeHandles(tbl)}
    ELSE {[table |-> Append(tbl, v), h |-> Len(tbl)]}

\* HELPERJS.loadObject
loadObject(tbl, h) ==
    IF h >= 0 /\ h < Len(tbl) THEN tbl[h + 1] ELSE Free

\* a release that cuts the table off at the released slot
releaseObject_truncating(tbl, h) ==
    IF h >= 0 /\ h < Len(tbl) THEN SubSeq(tbl, 1, h) ELSE tbl

\* HELPERJS.releaseObject
releaseObject(tbl, h) ==
    IF h >= 0 /\ h < Len(tbl) THEN [tbl EXCEPT ![h + 1] = Free] ELSE tbl

-----------------------------------------------------------------------------
(* Native heap *)

EmptyHeap == [a \in {} |-> <<>>]

\* malloc'ed blocks lie above the small integers the object table hands out
HeapBase == MaxSlots + 1

\* allocate a block holding `data`: [heap, p]
alloc(hp, data) ==
    LET p == CHOOSE a \in HeapBase .. HeapBase + Cardinality(DOMAIN hp) :
                 a \notin DOMAIN hp /\ \A b \in HeapBase .. a - 1 : b \in DOMAIN hp
    IN  [heap |-> [a \in DOMAIN hp \cup {p} |-> IF a = p THEN data ELSE hp[a]], p |-> p]

\* emscripten::free: [heap, wild]
free(hp, wild, p) ==
    IF p \in DOMAIN hp
    THEN [heap |-> [a \in DOMAIN hp \ {p} |-> hp[a]], wild |-> wild]
    ELSE [heap |-> hp, wild |-> wild \cup {p}]

\* HELPERJS.copyStringFromHeap($0, $1): the host string read from `len` units at `ptr`
copyStringFromHeap(hp, ptr, len) ==
    IF len = 0 THEN <<>> ELSE SubSeq(hp[ptr], 1, len)

\* HELPERJS.copyStringToHeap: a block [u32 length | units], [heap, p]
copyStringToHeap(hp, str) ==
    alloc(hp, <<Len(str) % 65536, Len(str) \div 65536>> \o str)

\* texts an undefined read may come back as
Garbage == {<<>>, <<65>>}

\* string_from_js: every [ret, heap, wild] the call may produce.  Reading through
\* a pointer that is no live block, or past a block's end, is undefined: any text
string_from_js(hp, wild, ptr) ==
    LET f == free(hp, wild, ptr)
    IN  IF ptr \in DOMAIN hp /\ Len(hp[ptr]) >= 2
           /\ hp[ptr][1] + 65536 * hp[ptr][2] <= Len(hp[ptr])
        THEN LET size == hp[ptr][1] + 65536 * hp[ptr][2]
             IN  {[ret |-> from_utf16_lossy(SubSeq(hp[ptr], 1, size)),
                   heap |-> f.heap, wild |-> f.wild]}
        ELSE {[ret |-> s, heap |-> f.heap, wild |-> f.wild] : s \in Garbage}

-----------------------------------------------------------------------------
(* JSObject *)

JSObject(value, jshandle, rc) ==
    [value |-> value, jshandle |-> jshandle, rc |-> rc, live |-> TRUE]

\* a wrapper with a counter of its own: refcount: Rc::new(())
new_obj(os, value, jshandle) ==
    Append(os, JSObject(value, jshandle, Len(os) + 1))

\* a deep copy with a counter of its own instead of a shared one
clone_fresh_counter(os, w) ==
    Append(os, JSObject(os[w].value, os[w].jshandle, Len(os) + 1))

\* #[derive(Clone)]: the copy holds the same Rc
clone(os, w) ==
    Append(os, JSObject(os[w].value, os[w].jshandle, os[w].rc))

\* Rc::strong_count
strong_count(os, rc) ==
    Cardinality({i \in DOMAIN os : os[i].live /\ os[i].rc = rc})

\* the count read after the Rc is gone: the last owner sees 0 and never releases
drop_releases_off_by_one(os, w) ==
    os[w].jshandle /\ strong_count(os, os[w].rc) = 0

\* the shared counter is not consulted: every copy releases
drop_releases_every_copy(os, w) ==
    os[w].jshandle

\* the jshandle flag is not consulted: a primitive is released as if a handle
drop_releases_untagged(os, w) ==
    strong_count(os, os[w].rc) = 1

\* Drop::drop: does this drop call HELPERJS.releaseObject?
drop_releases(os, w) ==
    os[w].jshandle /\ strong_count(os, os[w].rc) = 1

\* Drop::drop of wrapper w
drop(os, tbl, rel, w) ==
    LET r == drop_releases(os, w)
        h == os[w].value.n
    IN  [objs |-> [os EXCEPT ![w].live = FALSE],
         table |-> IF r THEN releaseObject(tbl, h) ELSE tbl,
         calls |-> IF r THEN <<Call("release", h)>> ELSE <<>>,
         relCount |-> IF r THEN [rel EXCEPT ![os[w].rc] = @ + 1] ELSE rel]

\* the consumed wrapper destroyed before its value is passed to the host
statement_calls_drop_first(snippet, dropped) == dropped \o snippet

\* the boundary calls of a statement `js_xxx!(code, obj)` that consumes the
\* wrapper obj: __js_macro! passes JSObject::from(obj).value to the snippet, and
\* the temporary wrapper is destroyed when the statement ends, after the call
statement_calls(snippet, dropped) == snippet \o dropped

\* the host's coercion of a loaded value to a double (emscripten_asm_const_double)
RECURSIVE HostToDouble(_)
HostToDouble(val) ==
    CASE val.t = "num" -> D(val.n)
      [] val.t = "str" -> IF val.s = <<>> THEN D(0) ELSE NaN
      [] val.t = "arr" -> IF val.e = <<>> THEN D(0)
                          ELSE IF Len(val.e) = 1 THEN HostToDouble(val.e[1])
                          ELSE NaN
      [] OTHER -> NaN

\* the host's coercion of a loaded value to an int (emscripten_asm_const_int)
HostToInt(val) ==
    LET d == HostToDouble(val) IN IF d.nan THEN 0 ELSE d.n

Live(w) == w \in DOMAIN objs /\ objs[w].live

-----------------------------------------------------------------------------
(* Conversions into a JSObject *)

\* From<&str>: every [table, heap, wild, h] the call may produce.  The Vec of
\* code units is a native block, read by the host during the call and freed
\* when `data` goes out of scope; an empty Vec owns no block
from_str(tbl, hp, wild, s) ==
    LET data == encode_utf16(s)
        a == IF data = <<>> THEN [heap |-> hp, p |-> 0] ELSE alloc(hp, data)
        js == copyStringFromHeap(a.heap, a.p, Len(data))
        f == IF data = <<>> THEN [heap |-> hp, wild |-> wild]
             ELSE free(a.heap, wild, a.p)
    IN  {[table |-> r.table, heap |-> f.heap, wild |-> f.wild, h |-> r.h] :
            r \in storeObject(tbl, Str(js))}

\* From<bool>
from_bool(b) == IF b THEN D(1) ELSE D(0)

\* From<JSObject> for bool, primitive branch: obj.value != 0f64
into_bool(x) == x.nan \/ x.n # 0

\* elements of a Vec handed to From<Vec<T>>
ENum(n) == [k |-> "num", n |-> n, s |-> <<>>]
EBool(b) == [k |-> "bool", n |-> IF b THEN 1 ELSE 0, s |-> <<>>]
EStr(s) == [k |-> "str", n |-> 0, s |-> s]

\* let elem_js = JSObject::from(elem)
elem_from(st, el) ==
    IF el.k = "str"
    THEN {[table |-> r.table, heap |-> r.heap, wild |-> r.wild, err |-> st.err,
           calls |-> st.calls \o <<Call("store", r.h)>>,
           value |-> D(r.h), jshandle |-> TRUE] :
              r \in from_str(st.table, st.heap, st.wild, el.s)}
    ELSE {[table |-> st.table, heap |-> st.heap, wild |-> st.wild, err |-> st.err,
           calls |-> st.calls,
           value |-> IF el.k = "bool" THEN from_bool(el.n = 1) ELSE as_f64("i32", el.n),
           jshandle |-> FALSE]}

\* js!(code, arr.value, elem_js.value), then elem_js goes out of scope.
\* `.push` on a loaded value that is no array throws in the host
push_elem(e, arrH) ==
    LET target == loadObject(e.table, arrH)
        item == IF e.jshandle THEN loadObject(e.table, e.value.n) ELSE Num(e.value.n)
        cl == e.calls \o <<Call("load", arrH)>>
              \o (IF e.jshandle THEN <<Call("load", e.value.n)>> ELSE <<>>)
    IN  IF target.t # "arr"
        THEN [table |-> e.table, heap |-> e.heap, wild |-> e.wild,
              calls |-> cl, err |-> TRUE]
        ELSE LET pushed == [e.table EXCEPT ![arrH + 1] = Arr(Append(target.e, item))]
                 d == drop(new_obj(<<>>, e.value, e.jshandle), pushed, <<0>>, 1)
             IN  [table |-> d.table, heap |-> e.heap, wild |-> e.wild,
                  calls |-> cl \o d.calls, err |-> FALSE]

\* for elem in v { ... }
RECURSIVE push_all(_, _, _)
push_all(st, arrH, v) ==
    IF v = <<>> \/ st.err THEN {st}
    ELSE UNION {push_all(push_elem(e, arrH), arrH, Tail(v)) : e \in elem_from(st, Head(v))}

\* From<Vec<T>>: every [table, heap, wild, calls, err, h] the call may produce.
\* js_obj! wraps its snippet in HELPERJS.storeObject(...), and the snippet is
\* itself `return HELPERJS.storeObject([]);`
from_vec(tbl, hp, wild, v) ==
    UNION {
      UNION {
        {[table |-> st.table, heap |-> st.heap, wild |-> st.wild,
          calls |-> st.calls, err |-> st.err, h |-> outer.h] :
            st \in push_all([table |-> outer.table, heap |-> hp, wild |-> wild,
                             calls |-> <<Call("store", inner.h), Call("store", outer.h)>>,
                             err |-> FALSE], outer.h, v)} :
        outer \in storeObject(inner.table, Num(inner.h))} :
      inner \in storeObject(tbl, Arr(<<>>))}

-----------------------------------------------------------------------------
(* The operations of the runtime, one action each *)

Alive == ~hostError /\ pc = "idle"

CanMake == Len(objs) < MaxObjs

\* From<$type> for JSObject (__js_from_numeric!)
FromNumeric(ty, v) ==
    /\ Alive /\ CanMake
    /\ objs' = new_obj(objs, as_f64(ty, v), FALSE)
    /\ op' = "from_num" /\ inp' = [ty |-> ty, v |-> v] /\ ret' = Len(objs) + 1
    /\ calls' = <<>>
    /\ UNCHANGED <<table, heap, wildFree, relCount, hostError, prevars>>

\* From<bool> for JSObject
FromBool(b) ==
    /\ Alive /\ CanMake
    /\ objs' = new_obj(objs, from_bool(b), FALSE)
    /\ op' = "from_bool" /\ inp' = b /\ ret' = Len(objs) + 1
    /\ calls' = <<>>
    /\ UNCHANGED <<table, heap, wildFree, relCount, hostError, prevars>>

\* From<&str> for JSObject (also From<&String>, From<String>)
FromStr(s) ==
    /\ Alive /\ CanMake /\ Room(table) >= 1
    /\ \E r \in from_str(table, heap, wildFree, s) :
         /\ table' = r.table /\ heap' = r.heap /\ wildFree' = r.wild
         /\ objs' = new_obj(objs, D(r.h), TRUE)
         /\ calls' = <<Call("store", r.h)>>
    /\ op' = "from_str" /\ inp' = s /\ ret' = Len(objs) + 1
    /\ UNCHANGED <<relCount, hostError, prevars>>

\* js_obj!: a host snippet whose result `val` is stored in the table.  The
\* macro's text leaves the parenthesis of the storeObject call open; the call it
\* spells, HELPERJS.storeObject((function(){ ... })()), is what is modelled
JsObj(val) ==
    /\ Alive /\ CanMake /\ Room(table) >= 1
    /\ \E r \in storeObject(table, val) :
         /\ table' = r.table
         /\ objs' = new_obj(objs, D(r.h), TRUE)
         /\ calls' = <<Call("store", r.h)>>
    /\ op' = "js_obj" /\ inp' = val /\ ret' = Len(objs) + 1
    /\ UNCHANGED <<heap, wildFree, relCount, hostError, prevars>>

\* From<Vec<T>> for JSObject
FromVec(v) ==
    /\ Alive /\ CanMake
    /\ Room(table) >= 2 + (IF \E i \in DOMAIN v : v[i].k = "str" THEN 1 ELSE 0)
    /\ \E r \in from_vec(table, heap, wildFree, v) :
         /\ table' = r.table /\ heap' = r.heap /\ wildFree' = r.wild
         /\ calls' = r.calls
         /\ hostError' = r.err
         /\ objs' = IF r.err THEN objs ELSE new_obj(objs, D(r.h), TRUE)
         /\ ret' = IF r.err THEN 0 ELSE Len(objs) + 1
    /\ op' = "from_vec" /\ inp' = v
    /\ UNCHANGED <<relCount, prevars>>

\* Clone::clone
Clone(w) ==
    /\ Alive /\ CanMake /\ Live(w)
    /\ objs' = clone(objs, w)
    /\ op' = "clone" /\ inp' = w /\ ret' = Len(objs) + 1
    /\ calls' = <<>>
    /\ UNCHANGED <<table, heap, wildFree, relCount, hostError, prevars>>

\* From<&JSObject> for JSObject: JSObject::from(v.clone())
FromRef(w) ==
    /\ Alive /\ CanMake /\ Live(w)
    /\ objs' = clone(objs, w)
    /\ op' = "from_ref" /\ inp' = w /\ ret' = Len(objs) + 1
    /\ calls' = <<>>
    /\ UNCHANGED <<table, heap, wildFree, relCount, hostError, prevars>>

\* a wrapper goes out of scope: Drop::drop
Drop(w) ==
    /\ Alive /\ Live(w)
    /\ LET d == drop(objs, table, relCount, w)
       IN  /\ objs' = d.objs /\ table' = d.table
           /\ calls' = d.calls /\ relCount' = d.relCount
    /\ op' = "drop" /\ inp' = w /\ ret' = 0
    /\ UNCHANGED <<heap, wildFree, hostError, prevars>>

\* From<JSObject> for $type (__js_from_numeric!); the wrapper is consumed
IntoNumeric(w, ty) ==
    /\ Alive /\ Live(w)
    /\ LET o == objs[w]
           d == drop(objs, table, relCount, w)
       IN  /\ ret' = IF o.jshandle
                     THEN as_type(ty, HostToDouble(loadObject(table, o.value.n)))
                     ELSE as_type(ty, o.value)
           /\ calls' = statement_calls(IF o.jshandle THEN <<Call("load", o.value.n)>> ELSE <<>>,
                                       d.calls)
           /\ objs' = d.objs /\ table' = d.table /\ relCount' = d.relCount
           /\ inp' = [w |-> w, ty |-> ty, value |-> o.value, jshandle |-> o.jshandle]
    /\ op' = "into_num"
    /\ UNCHANGED <<heap, wildFree, hostError, prevars>>

\* From<JSObject> for bool; the wrapper is consumed
IntoBool(w) ==
    /\ Alive /\ Live(w)
    /\ LET o == objs[w]
           d == drop(objs, table, relCount, w)
       IN  /\ ret' = IF o.jshandle
                     THEN HostToInt(loadObject(table, o.value.n)) # 0
                     ELSE into_bool(o.value)
           /\ calls' = statement_calls(IF o.jshandle THEN <<Call("load", o.value.n)>> ELSE <<>>,
                                       d.calls)
           /\ objs' = d.objs /\ table' = d.table /\ relCount' = d.relCount
           /\ inp' = [w |-> w, value |-> o.value, jshandle |-> o.jshandle]
    /\ op' = "into_bool"
    /\ UNCHANGED <<heap, wildFree, hostError, prevars>>

\* From<JSObject> for String, on a wrapper of a host string; the wrapper is
\* consumed at the end of the `let ptr` statement.  The snippet returns
\* HELPERJS.storeObject(HELPERJS.copyStringToHeap(...)): the block's address goes
\* into the table and the handle comes back, cast to *mut u16
IntoString(w) ==
    /\ Alive /\ Live(w) /\ objs[w].jshandle /\ Room(table) >= 1
    /\ loadObject(table, objs[w].value.n).t = "str"
    /\ LET h == objs[w].value.n
           buf == copyStringToHeap(heap, loadObject(table, h).s)
       IN  \E r \in storeObject(table, Num(buf.p)) :
             LET d == drop(objs, r.table, relCount, w)
             IN  \E f \in string_from_js(buf.heap, wildFree, r.h) :
                   /\ ret' = f.ret /\ heap' = f.heap /\ wildFree' = f.wild
                   /\ objs' = d.objs /\ table' = d.table /\ relCount' = d.relCount
                   /\ calls' = statement_calls(<<Call("load", h), Call("store", r.h)>>, d.calls)
                   /\ inp' = [w |-> w, str |-> loadObject(table, h).s]
    /\ op' = "into_string"
    /\ UNCHANGED <<hostError, prevars>>

-----------------------------------------------------------------------------
(* The runtime: wrappers of every kind, over a small set of inputs.  From<bool> *)
(* builds the same primitive wrapper as From<$type> and runs under SpecPrim  *)

NumInputs == {[ty |-> "i32", v |-> 0]}
StrInputs == {<<>>, <<128512>>}
HostVals == {Num(7), Str(<<55357>>)}
VecInputs == {<<>>, <<ENum(1), EStr(<<65>>), EBool(TRUE)>>}
IntoTypes == {"i32"}

InitRt ==
    /\ table = <<>>
    /\ objs = <<>>
    /\ heap = EmptyHeap
    /\ wildFree = {}
    /\ relCount = [g \in 1 .. MaxObjs |-> 0]
    /\ hostError = FALSE
    /\ op = "init" /\ inp = 0 /\ ret = 0 /\ calls = <<>>

IdlePre ==
    /\ haystack = <<>> /\ pos = 0 /\ last_end = 0 /\ result = <<>>
    /\ step = [kind |-> "None", a |-> 0, b |-> 0]
    /\ pc = "idle"

Init == InitRt /\ IdlePre

Next ==
    \/ \E i \in NumInputs : FromNumeric(i.ty, i.v)
    \/ \E s \in StrInputs : FromStr(s)
    \/ \E val \in HostVals : JsObj(val)
    \/ \E v \in VecInputs : FromVec(v)
    \/ \E w \in 1 .. MaxObjs : Clone(w)
    \/ \E w \in 1 .. MaxObjs : FromRef(w)
    \/ \E w \in 1 .. MaxObjs : Drop(w)
    \/ \E w \in 1 .. MaxObjs, ty \in IntoTypes : IntoNumeric(w, ty)
    \/ \E w \in 1 .. MaxObjs : IntoBool(w)
    \/ \E w \in 1 .. MaxObjs : IntoString(w)

Spec == Init /\ [][Next]_vars

-----------------------------------------------------------------------------
(* Claims about the wrapper's ownership discipline, checked under Spec *)

Members(g) == {i \in DOMAIN objs : objs[i].rc = g}
HandleGroups == {g \in DOMAIN objs : objs[g].rc = g /\ objs[g].jshandle}

\* C1: the copies of a handle-backed wrapper issue release(handle) exactly once,
\* and the destruction that issues it is the one of the last remaining copy: no
\* release while a copy is alive, one release once none is, and the call made by
\* the destroying operation names the wrapper's own handle.
C1_ReleaseOnceByLastCopy ==
    /\ \A g \in HandleGroups :
         relCount[g] = IF \E i \in Members(g) : objs[i].live THEN 0 ELSE 1
    /\ (op = "drop" /\ objs[inp].jshandle) =>
         calls = IF \E i \in Members(objs[inp].rc) : objs[i].live THEN <<>>
                 ELSE <<Call("release", objs[inp].value.n)>>

\* C1 witness: a wrapper duplicated twice, all three copies destroyed, one release.
C1_Witness ==
    \E g \in HandleGroups :
        /\ Cardinality(Members(g)) >= 3
        /\ \A i \in Members(g) : ~objs[i].live
        /\ relCount[g] = 1
        /\ op = "drop" /\ calls # <<>>

\* C2: every slot a live handle-backed wrapper refers to is occupied and belongs
\* to one counter group: live wrappers with the same handle share their counter,
\* and a wrapper built from a string, an array or a host expression has a counter
\* of its own and a slot no other live wrapper refers to.
C2_OneGroupPerSlot ==
    /\ \A i, j \in DOMAIN objs :
         (objs[i].live /\ objs[j].live /\ objs[i].jshandle /\ objs[j].jshandle
            /\ objs[i].value = objs[j].value) => objs[i].rc = objs[j].rc
    /\ \A i \in DOMAIN objs :
         (objs[i].live /\ objs[i].jshandle) => loadObject(table, objs[i].value.n) # Free
    /\ (op \in {"from_str", "from_vec", "js_obj"} /\ ret # 0) =>
         /\ objs[ret].rc = ret
         /\ \A j \in DOMAIN objs \ {ret} :
              (objs[j].live /\ objs[j].jshandle) => objs[j].value # objs[ret].value

\* C2 witness: a wrapper has just been built from a string or a host expression
\* while a wrapper and its duplicate, sharing another slot, are alive.
C2_Witness ==
    /\ op \in {"from_str", "js_obj"}
    /\ \E i, j \in DOMAIN objs \ {ret} :
         /\ i # j /\ objs[i].live /\ objs[j].live /\ objs[i].jshandle
         /\ objs[i].rc = objs[j].rc

\* C3: an operation that destroys a primitive-backed wrapper, duplicated or not,
\* makes no boundary call: no release, and nothing else either.
C3_PrimitiveDropNoCall ==
    /\ (op = "drop" /\ ~objs[inp].jshandle) =>
         (calls = <<>> /\ relCount[objs[inp].rc] = 0)
    /\ (op \in {"into_num", "into_bool"} /\ ~inp.jshandle) =>
         (calls = <<>> /\ relCount[objs[inp.w].rc] = 0)

\* C3 witness: the last copy of a duplicated primitive wrapper is destroyed while a
\* live handle-backed wrapper holds the handle equal to the primitive's payload.
C3_Witness ==
    /\ op = "drop" /\ ~objs[inp].jshandle
    /\ Cardinality(Members(objs[inp].rc)) >= 2
    /\ \A i \in Members(objs[inp].rc) : ~objs[i].live
    /\ \E j \in DOMAIN objs :
         objs[j].live /\ objs[j].jshandle /\ objs[j].value = objs[inp].value

\* C8: a duplication (clone, or From<&JSObject>) yields a wrapper with the
\* payload, the flag and the counter of the original, makes no boundary call and
\* leaves the object table and the heap as they were.
C8_DuplicateSharesAndFrames ==
    [][op' \in {"clone", "from_ref"} =>
         /\ objs'[ret'].value = objs[inp'].value
         /\ objs'[ret'].jshandle = objs[inp'].jshandle
         /\ objs'[ret'].rc = objs[inp'].rc
         /\ objs'[ret'].live /\ objs'[inp'].live
         /\ calls' = <<>>
         /\ table' = table /\ heap' = heap /\ relCount' = relCount]_vars

\* C8 witness: a handle-backed wrapper has just been duplicated by From<&JSObject>.
C8_Witness ==
    /\ op = "from_ref" /\ objs[inp].jshandle
    /\ objs[ret].rc = objs[inp].rc /\ ret # inp

-----------------------------------------------------------------------------
(* Claims about the string and array conversions, checked under Spec *)

\* C5: Construct-from-string(s) followed by Convert-to-string yields s, and a
\* host string with malformed UTF-16 yields its lossy replacement.  The code
\* reads the text through the returned table handle, not through the buffer's
\* address, so this fails.
C5_StringRoundTrip ==
    op = "into_string" =>
        /\ ret = from_utf16_lossy(inp.str)
        /\ \A s \in Strings : inp.str = encode_utf16(s) => ret = s

\* C6: after every string transfer no transfer buffer is outstanding and every
\* free() was handed the address of a live buffer.  Convert-to-string frees the
\* table handle instead of the buffer the host allocated, so this fails.
C6_BuffersFreedOnce ==
    /\ wildFree = {}
    /\ DOMAIN heap = {}

\* what Construct-from-array is to push for one input element
ExpectedItem(el) ==
    IF el.k = "str" THEN Str(encode_utf16(el.s)) ELSE Num(el.n)

\* C7: Construct-from-array of n elements returns a handle-backed wrapper whose
\* slot holds a host array with the n input elements in input order.  The
\* wrapper's slot holds the handle of the array, not the array, so this fails.
C7_ArrayInOrder ==
    op = "from_vec" =>
        /\ ~hostError /\ ret # 0
        /\ objs[ret].jshandle
        /\ loadObject(table, objs[ret].value.n)
             = Arr([i \in 1 .. Len(inp) |-> ExpectedItem(inp[i])])

-----------------------------------------------------------------------------
(* Primitive round trips: one wrapper at a time, every numeric type and bool *)

\* 2^31 - 64 and above round to the f32 2^31, which the model's integers do not hold
InF32Reach(x) == x.nan \/ Abs(x.n) < 2147483584

NextPrim ==
    \/ \E ty \in NumTypes : \E v \in Samples(ty) : objs = <<>> /\ FromNumeric(ty, v)
    \/ \E b \in BOOLEAN : objs = <<>> /\ FromBool(b)
    \/ \E ty \in NumTypes :
          (ty = "f32" /\ Live(1) => InF32Reach(objs[1].value)) /\ IntoNumeric(1, ty)
    \/ IntoBool(1)

SpecPrim == Init /\ [][NextPrim]_vars

\* C4: a wrapper constructed from a number or a boolean v and converted back to
\* the type of v yields v, and neither the construction nor the conversion (which
\* destroys the wrapper) makes a boundary call.
C4_PrimitiveRoundTrip ==
    /\ op \in {"from_num", "from_bool"} => (calls = <<>> /\ table = <<>>)
    /\ (op = "into_num" /\ ~inp.jshandle) =>
         /\ calls = <<>> /\ table = <<>>
         /\ \A v \in Samples(inp.ty) : inp.value = as_f64(inp.ty, v) => ret = v
    /\ (op = "into_bool" /\ ~inp.jshandle) =>
         /\ calls = <<>> /\ table = <<>>
         /\ \A b \in BOOLEAN : inp.value = from_bool(b) => ret = b

\* C4 witness: the largest i32 has come back from its wrapper.
C4_Witness ==
    /\ op = "into_num" /\ inp.ty = "i32" /\ ~inp.jshandle
    /\ inp.value = as_f64("i32", 2147483647) /\ ret = 2147483647
    /\ ~objs[1].live

-----------------------------------------------------------------------------
(* The object table on its own: any sequence of store, load and release *)

HostStore(v) ==
    /\ pc = "idle" /\ Room(table) >= 1
    /\ \E r \in storeObject(table, v) : table' = r.table /\ ret' = r.h
    /\ op' = "store" /\ inp' = v /\ calls' = <<>>
    /\ UNCHANGED <<objs, heap, wildFree, relCount, hostError, prevars>>

HostLoad(h) ==
    /\ pc = "idle"
    /\ ret' = loadObject(table, h)
    /\ op' = "load" /\ inp' = h /\ calls' = <<>>
    /\ UNCHANGED <<table, objs, heap, wildFree, relCount, hostError, prevars>>

HostRelease(h) ==
    /\ pc = "idle"
    /\ table' = releaseObject(table, h)
    /\ op' = "release" /\ inp' = h /\ ret' = 0 /\ calls' = <<>>
    /\ UNCHANGED <<objs, heap, wildFree, relCount, hostError, prevars>>

NextTable ==
    \/ \E v \in HostVals : HostStore(v)
    \/ \E h \in 0 .. MaxSlots : HostLoad(h)
    \/ \E h \in 0 .. MaxSlots : HostRelease(h)

SpecTable == Init /\ [][NextTable]_vars

\* C9: whatever stores and releases came before, repeated or on free slots, a
\* store returns a handle whose slot was not occupied, puts its value there and
\* changes no other slot; a release frees its slot and changes no other slot.
C9_TableNeverCorrupted ==
    [][/\ op' = "store" =>
            /\ loadObject(table, ret') = Free
            /\ loadObject(table', ret') = inp'
            /\ \A h \in 0 .. MaxSlots : h # ret' => loadObject(table', h) = loadObject(table, h)
       /\ op' = "release" =>
            /\ loadObject(table', inp') = Free
            /\ \A h \in 0 .. MaxSlots : h # inp' => loadObject(table', h) = loadObject(table, h)
      ]_vars

\* C9 witness: a store has just reissued a freed handle below the table's last
\* slot, which is free too.
C9_Witness ==
    /\ op = "store" /\ ret + 1 < Len(table)
    /\ table[Len(table)] = Free

-----------------------------------------------------------------------------
(* The host-script preprocessor of build.rs.  Text is a sequence of one-byte  *)
(* characters; offsets count from 0 as in the code                            *)

NL == "\n"
SQ == "'"
DQ == "\""
SP == " "

Alphabet == {"a", "/", "*", NL, SQ, DQ}

Example1 == <<"f", "o", "o", SP, "/", "/", SP, "b", "a", "r", NL, "b", "a", "z">>
Example2 == <<SQ, "a", SP, "/", "/", SP, "b", SQ, NL>>
Example3 == <<SQ, DQ, "\\", SQ, NL>>

Haystacks == UNION {[1 .. n -> Alphabet] : n \in 0 .. MaxLen} \cup {Example1, Example2, Example3}

\* self.haystack.split_at(p).1.starts_with(pat)
starts_with(h, p, pat) ==
    p + Len(pat) <= Len(h) /\ SubSeq(h, p + 1, p + Len(pat)) = pat

\* the line-comment loop: advance to the next newline or the end
RECURSIVE scan_line(_, _)
scan_line(h, p) ==
    IF p < Len(h) /\ ~starts_with(h, p, <<NL>>) THEN scan_line(h, p + 1) ELSE p

\* a block-comment loop that steps over the closing marker, found or not
RECURSIVE scan_block_past_marker(_, _)
scan_block_past_marker(h, p) ==
    IF p < Len(h) /\ ~starts_with(h, p, <<"*", "/">>)
    THEN scan_block_past_marker(h, p + 1)
    ELSE p + 2

\* the block-comment loop: advance to the next "*/" or the end
RECURSIVE scan_block(_, _)
scan_block(h, p) ==
    IF p < Len(h) /\ ~starts_with(h, p, <<"*", "/">>) THEN scan_block(h, p + 1) ELSE p

\* JSJunkState
Normal == [lit |-> FALSE, c |-> <<>>]
InLiteral(c) == [lit |-> TRUE, c |-> c]

\* the slice InLiteral is given at a quote: &self.haystack[self.pos..self.pos]
quote_slice(h, p) == SubSeq(h, p + 1, p)

\* one turn of the "no match, skip" loop at position p: the state it leaves
loop_state(h, p, state) ==
    IF ~state.lit
    THEN IF starts_with(h, p, <<SQ>>) \/ starts_with(h, p, <<DQ>>)
         THEN InLiteral(quote_slice(h, p))
         ELSE state
    ELSE IF starts_with(h, p, state.c) THEN Normal ELSE state

\* the state in which the loop, entered at position p in `state`, gets to q
RECURSIVE state_at(_, _, _, _)
state_at(h, p, state, q) ==
    IF p >= q THEN state ELSE state_at(h, p + 1, loop_state(h, p, state), q)

\* the "no match, skip" loop: in Normal it breaks in front of a comment or a
\* newline, otherwise it takes one turn and goes on
RECURSIVE scan_reject(_, _, _)
scan_reject(h, p, state) ==
    IF p >= Len(h) THEN p
    ELSE IF /\ ~state.lit
            /\ ~(starts_with(h, p, <<SQ>>) \/ starts_with(h, p, <<DQ>>))
            /\ \/ starts_with(h, p, <<"/", "/">>)
               \/ starts_with(h, p, <<"/", "*">>)
               \/ starts_with(h, p, <<NL>>)
         THEN p
    ELSE scan_reject(h, p + 1, loop_state(h, p, state))

SearchStep(kind, a, b) == [kind |-> kind, a |-> a, b |-> b]

\* JSJunkSearcher::next at position p; the searcher's new position is the step's b
next(h, p) ==
    IF p >= Len(h) THEN SearchStep("Done", p, p)
    ELSE IF starts_with(h, p, <<NL>>) THEN SearchStep("Match", p, p + 1)
    ELSE IF starts_with(h, p, <<"/", "/">>) THEN SearchStep("Match", p, scan_line(h, p))
    ELSE IF starts_with(h, p, <<"/", "*">>) THEN SearchStep("Match", p, scan_block(h, p))
    ELSE SearchStep("Reject", p, scan_reject(h, p, Normal))

\* replace(JSJunkPattern {}, "") : every match dropped without a space
to_nothing == <<>>

\* the second argument of str::replace in main: the text put for every match
to == <<SP>>

\* str::replace(JSJunkPattern {}, " "): one action per step the searcher returns
MatchStep ==
    /\ pc = "search" /\ next(haystack, pos).kind = "Match"
    /\ step' = next(haystack, pos)
    /\ pos' = step'.b
    /\ result' = result \o SubSeq(haystack, last_end + 1, step'.a) \o to
    /\ last_end' = step'.b
    /\ UNCHANGED <<pc, haystack, rtvars>>

RejectStep ==
    /\ pc = "search" /\ next(haystack, pos).kind = "Reject"
    /\ step' = next(haystack, pos)
    /\ pos' = step'.b
    /\ UNCHANGED <<pc, haystack, result, last_end, rtvars>>

\* the searcher is done: the tail is copied and main writes helper.js
DoneStep ==
    /\ pc = "search" /\ next(haystack, pos).kind = "Done"
    /\ step' = next(haystack, pos)
    /\ result' = result \o SubSeq(haystack, last_end + 1, Len(haystack))
    /\ pc' = "done"
    /\ UNCHANGED <<pos, haystack, last_end, rtvars>>

InitPre ==
    /\ InitRt
    /\ haystack \in Haystacks
    /\ pos = 0 /\ last_end = 0 /\ result = <<>>
    /\ step = SearchStep("None", 0, 0)
    /\ pc = "search"

NextPre == MatchStep \/ RejectStep \/ DoneStep

SpecPre == InitPre /\ [][NextPre]_vars

-----------------------------------------------------------------------------
(* Claims about the preprocessor, checked under SpecPre *)

\* index of the first newline at or after index i, or Len(h) + 1
RECURSIVE LineEnd(_, _)
LineEnd(h, i) == IF i > Len(h) \/ h[i] = NL THEN i ELSE LineEnd(h, i + 1)

\* the text the two-state lexer is to produce for an input without block
\* comments: q is the open literal's quote character, "" outside a literal
RECURSIVE LineStripped(_, _, _)
LineStripped(h, i, q) ==
    IF i > Len(h) THEN <<>>
    ELSE IF q # "" THEN <<h[i]>> \o LineStripped(h, i + 1, IF h[i] = q THEN "" ELSE q)
    ELSE IF h[i] = NL THEN <<SP>> \o LineStripped(h, i + 1, "")
    ELSE IF i < Len(h) /\ h[i] = "/" /\ h[i + 1] = "/"
         THEN <<SP>> \o LineStripped(h, LineEnd(h, i), "")
    ELSE IF h[i] \in {SQ, DQ} THEN <<h[i]>> \o LineStripped(h, i + 1, h[i])
    ELSE <<h[i]>> \o LineStripped(h, i + 1, "")

\* the literal open at the end of h, "" if none
RECURSIVE OpenQuote(_, _, _)
OpenQuote(h, i, q) ==
    IF i > Len(h) THEN q
    ELSE IF q # "" THEN OpenQuote(h, i + 1, IF h[i] = q THEN "" ELSE q)
    ELSE IF h[i] = NL THEN OpenQuote(h, i + 1, "")
    ELSE IF i < Len(h) /\ h[i] = "/" /\ h[i + 1] = "/" THEN OpenQuote(h, LineEnd(h, i), "")
    ELSE IF h[i] \in {SQ, DQ} THEN OpenQuote(h, i + 1, h[i])
    ELSE OpenQuote(h, i + 1, "")

NoBlockOpener(h) == \A i \in 1 .. Len(h) - 1 : ~(h[i] = "/" /\ h[i + 1] = "*")

\* C10: on an input whose literals are closed and that holds no block comment,
\* the output is the input with every newline and every line comment outside a
\* string literal replaced by one space and all other text copied in order; and
\* `foo // bar\nbaz` becomes `foo   baz`.  The lexer leaves a literal after one
\* character, so text after a closing quote is taken for literal text.
C10_NewlineAndLineComment ==
    pc = "done" =>
        /\ haystack = Example1 => result = <<"f", "o", "o", SP, SP, SP, "b", "a", "z">>
        /\ (NoBlockOpener(haystack) /\ OpenQuote(haystack, 1, "") = "")
              => result = LineStripped(haystack, 1, "")


-----------------------------------------------------------------------------
(* The lexer of the specification, section 4.4, to state the claims against *)

\* index of the `*` of the first "*/" at or after index i, 0 if there is none
RECURSIVE BlockEnd(_, _)
BlockEnd(h, i) ==
    IF i >= Len(h) THEN 0
    ELSE IF h[i] = "*" /\ h[i + 1] = "/" THEN i
    ELSE BlockEnd(h, i + 1)

\* [out, end, blocks]: the text to produce from index i on, the state at the
\* end of the input ("" for Normal, the quote character of an open literal,
\* "/*" for an open block comment) and the number of block comments met;
\* q is the open literal's quote character, "" outside a literal
RECURSIVE RefLex(_, _, _)
RefLex(h, i, q) ==
    IF i > Len(h) THEN [out |-> <<>>, end |-> q, blocks |-> 0]
    ELSE IF q # ""
         THEN LET r == RefLex(h, i + 1, IF h[i] = q THEN "" ELSE q)
              IN  [r EXCEPT !.out = <<h[i]>> \o @]
    ELSE IF h[i] = NL
         THEN LET r == RefLex(h, i + 1, "") IN [r EXCEPT !.out = <<SP>> \o @]
    ELSE IF i < Len(h) /\ h[i] = "/" /\ h[i + 1] = "/"
         THEN LET r == RefLex(h, LineEnd(h, i), "") IN [r EXCEPT !.out = <<SP>> \o @]
    ELSE IF i < Len(h) /\ h[i] = "/" /\ h[i + 1] = "*"
         THEN LET j == BlockEnd(h, i + 2)
              IN  IF j = 0 THEN [out |-> <<SP>>, end |-> "/*", blocks |-> 1]
                  ELSE LET r == RefLex(h, j + 2, "")
                       IN  [r EXCEPT !.out = <<SP>> \o @, !.blocks = @ + 1]
    ELSE IF h[i] \in {SQ, DQ}
         THEN LET r == RefLex(h, i + 1, h[i]) IN [r EXCEPT !.out = <<h[i]>> \o @]
    ELSE LET r == RefLex(h, i + 1, "") IN [r EXCEPT !.out = <<h[i]>> \o @]

HasQuote(h) == \E i \in 1 .. Len(h) : h[i] \in {SQ, DQ}

\* C11: on an input without quote characters whose block comments are closed,
\* every block comment, from its `/*` through the first following `*/`
\* inclusive, is replaced by one space, so that the output is the text of the
\* specification's lexer.  The searcher's match stops in front of the `*/`,
\* which is then copied to the output.
C11_BlockCommentReplaced ==
    (pc = "done" /\ ~HasQuote(haystack) /\ RefLex(haystack, 1, "").end = "")
        => result = RefLex(haystack, 1, "").out

\* C12: on an input whose literals are closed and that holds no block comment
\* outside a literal, the text between a quote and its closing quote reaches the
\* output unchanged, whatever it holds; `'a // b'` followed by a newline keeps
\* `// b` and has only the newline replaced.  The lexer leaves a literal after
\* one character, so a comment marker or newline further in is matched.
C12_LiteralVerbatim ==
    pc = "done" =>
        /\ haystack = Example2
              => result = <<SQ, "a", SP, "/", "/", SP, "b", SQ, SP>>
        /\ (HasQuote(haystack) /\ RefLex(haystack, 1, "").blocks = 0
              /\ RefLex(haystack, 1, "").end = "")
              => result = RefLex(haystack, 1, "").out

\* C14: the preprocessor never gets to write its output for an input that ends
\* inside a block comment or a string literal.  The searcher has no error path:
\* the end of the input ends the comment or literal and the output is written.
C14_UnterminatedIsFatal ==
    pc = "done" => RefLex(haystack, 1, "").end = ""

\* str::replace as a function of its input: the searcher is run from position
\* p, last is the end of the last match
RECURSIVE replace(_, _, _)
replace(h, p, last) ==
    LET st == next(h, p)
    IN  IF st.kind = "Done" THEN SubSeq(h, last + 1, Len(h))
        ELSE IF st.kind = "Match"
             THEN SubSeq(h, last + 1, st.a) \o to \o replace(h, st.b, st.b)
        ELSE replace(h, st.b, last)

\* what main writes to helper.js for the script h
preprocess(h) == replace(h, 0, 0)

\* C13: preprocessing is idempotent: the preprocessor run on the output it has
\* written gives that output again.
C13_Idempotent ==
    pc = "done" => preprocess(result) = result

\* a script with a literal and a block comment has been preprocessed, something
\* was replaced and the comment's closing marker is in the output
C13_Witness ==
    /\ pc = "done" /\ result # haystack
    /\ \E i \in 1 .. Len(result) : result[i] = SP
    /\ \E i \in 1 .. Len(result) - 1 : result[i] = "*" /\ result[i + 1] = "/"

\* the quote character of the literal the specification's lexer is in on
\* getting to position q, having been at position p with c open ("" for none)
RECURSIVE OpenAt(_, _, _, _)
OpenAt(h, p, c, q) ==
    IF p >= q THEN c
    ELSE OpenAt(h, p + 1,
                IF c = "" THEN (IF h[p + 1] \in {SQ, DQ} THEN h[p + 1] ELSE "")
                ELSE IF h[p + 1] = c THEN "" ELSE c,
                q)

\* C18: while the lexer skips unmatched text it is in a literal exactly from a
\* quote character met in state Normal up to the next occurrence of that same
\* character: at every position of the span the searcher has just rejected, the
\* lexer's state is InLiteral if and only if such a literal is open there.  The
\* literal the lexer enters is given the empty slice and ends on the next
\* character, whatever it is.
C18_LiteralStates ==
    (pc = "search" /\ step.kind = "Reject") =>
        \A q \in step.a .. step.b :
            state_at(haystack, step.a, Normal, q).lit
                <=> (OpenAt(haystack, step.a, "", q) # "")

\* the slot of the handle passed by the i-th call of a handler is occupied when
\* the call is made: it was occupied in `tbl`, the table before the handler, or
\* stored by an earlier call of the handler, and no release has come since
HandleValidAt(tbl, cs, i) ==
    LET prior == {j \in 1 .. i - 1 : cs[j].h = cs[i].h /\ cs[j].op \in {"store", "release"}}
    IN  IF prior = {} THEN loadObject(tbl, cs[i].h) # Free
        ELSE cs[CHOOSE j \in prior : \A k \in prior : k <= j].op = "store"

C20_NoSlotLeak ==
    ~hostError =>
        \A h \in 0 .. Len(table) - 1 :
            loadObject(table, h) # Free
                => \E w \in DOMAIN objs :
                       objs[w].live /\ objs[w].jshandle /\ objs[w].value.n = h

-----------------------------------------------------------------------------
(* The host-to-native string transfer on its own: the host copies a string to  *)
(* the heap and native code reads it back through the address it was given    *)

MaxUnits == 3

Units == {65, 55357, 56832}

HostStrings == UNION {[1 .. n -> Units] : n \in 0 .. MaxUnits}

\* the host side of the transfer: HELPERJS.copyStringToHeap(js_string)
HostCopyToHeap ==
    /\ Alive /\ op = "init"
    /\ LET b == copyStringToHeap(heap, inp)
       IN  heap' = b.heap /\ ret' = b.p
    /\ op' = "copy_to_heap"
    /\ UNCHANGED <<table, objs, wildFree, relCount, hostError, inp, calls, prevars>>

\* the native side: string_from_js on the address the host returned
ReadString ==
    /\ Alive /\ op = "copy_to_heap"
    /\ \E f \in string_from_js(heap, wildFree, ret) :
         ret' = f.ret /\ heap' = f.heap /\ wildFree' = f.wild
    /\ op' = "string_from_js"
    /\ UNCHANGED <<table, objs, relCount, hostError, inp, calls, prevars>>

InitStr ==
    /\ table = <<>> /\ objs = <<>> /\ heap = EmptyHeap /\ wildFree = {}
    /\ relCount = [g \in 1 .. MaxObjs |-> 0]
    /\ hostError = FALSE
    /\ op = "init" /\ inp \in HostStrings /\ ret = 0 /\ calls = <<>>
    /\ IdlePre

NextStr == HostCopyToHeap \/ ReadString

SpecStr == InitStr /\ [][NextStr]_vars

\* C16: given the address of a buffer the host wrote, native code decodes the n
\* code units that follow the 4-byte prefix holding n, so that the text it
\* returns is the host string's.  The slice native code makes starts at the
\* address itself: it takes the prefix's two units and misses the last two of
\* the string.
C16_ReadsUnitsAfterPrefix ==
    op = "string_from_js" => ret = from_utf16_lossy(inp)

-----------------------------------------------------------------------------
(* The numbers of a boundary call on their own: the buffer address and length *)
(* passed by From<&str> and the handle a js_obj! call gets back               *)

\* addresses of a 32-bit linear memory, top bit and low 31 bits apart; buffers
\* of u16 lie at even addresses
AddrSamples ==
    {[top |-> 0, low |-> HeapBase + 1], [top |-> 0, low |-> 33554434],
     [top |-> 0, low |-> 2147483646], [top |-> 1, low |-> 2],
     [top |-> 1, low |-> 33554434], [top |-> 1, low |-> 2147483646]}

\* handles as the c_int a boundary call returns
HandleSamples == {0, MaxSlots, 16777217, 2147483647}

\* data.as_ptr() as isize: the address wraps into the 32-bit signed range
ptr_as_isize(a) ==
    IF a.top = 0 THEN a.low ELSE (a.low - 2147483647) - 1

\* the arguments of the boundary call in From<&str>: data_ptr_as_isize and
\* data.len() as f64, both passed as doubles
SendPointer ==
    /\ Alive /\ op = "init"
    /\ ret' = [ptr |-> as_f64("isize", ptr_as_isize(inp.addr)),
               len |-> as_f64("usize", inp.len)]
    /\ op' = "send_ptr"
    /\ UNCHANGED <<table, objs, heap, wildFree, relCount, hostError, inp, calls, prevars>>

\* the value js_obj! makes of the call's result: the returned c_int `as f64`
ReturnHandle ==
    /\ Alive /\ op = "send_ptr"
    /\ ret' = as_f64("i32", inp.h)
    /\ op' = "ret_handle"
    /\ UNCHANGED <<table, objs, heap, wildFree, relCount, hostError, inp, calls, prevars>>

InitWire ==
    /\ table = <<>> /\ objs = <<>> /\ heap = EmptyHeap /\ wildFree = {}
    /\ relCount = [g \in 1 .. MaxObjs |-> 0]
    /\ hostError = FALSE
    /\ op = "init" /\ ret = 0 /\ calls = <<>>
    /\ inp \in [addr : AddrSamples, len : 1 .. MaxUnits + 1, h : HandleSamples]
    /\ IdlePre

NextWire == SendPointer \/ ReturnHandle

SpecWire == InitWire /\ [][NextWire]_vars

\* an integer that a double holds exactly
ExactInF64(x) == ~x.nan /\ BitLen(Abs(x.n)) <= F64Mant

\* C19: every buffer address that construct-from-string passes lies in the range
\* its channel carries exactly (the address goes through an isize into a double)
\* and reaches the host as the number it is, as does the length; the handle a
\* handle-returning call yields is the integer the call returned.  Nothing
\* rejects or rules out a buffer in the upper half of the memory, whose address
\* wraps to a negative isize and is passed as that.
C19_WithinExactRange ==
    /\ op = "send_ptr" =>
          /\ ExactInF64(ret.ptr)
          /\ inp.addr.top = 0 /\ ret.ptr.n = inp.addr.low
          /\ ExactInF64(ret.len) /\ ret.len = D(inp.len)
    /\ op = "ret_handle" =>
          ExactInF64(ret) /\ ret = D(inp.h)

-----------------------------------------------------------------------------
(* The preprocessor run to its end: str::replace calls next() until Done *)

SpecPreFair == InitPre /\ [][NextPre]_vars /\ WF_vars(NextPre)

====
